---- MODULE Spec2Model ----
(***************************************************************************)
(* Model of video/builder.py: the VideoBuilder class, which accumulates a  *)
(* background, an audio file, captions and an output path through fluent   *)
(* setters and assembles an FFmpeg command line from them.                 *)
(*                                                                         *)
(* Encoding of Python values                                               *)
(*   None            is the empty sequence                                 *)
(*   any other value is the one-element sequence << v >>                   *)
(*   a str           is a TLA+ string                                      *)
(*   a dict          is a function whose domain is the set of its keys     *)
(*   a float         is an integer number of eighths of a unit (all such   *)
(*                   values and their products by 25 are exact doubles);   *)
(*                   zoom factors are integer thousandths                  *)
(***************************************************************************)
EXTENDS Integers, Sequences, FiniteSets, TLC

VARIABLES vb, last, first_build, nbuilds

vars == <<vb, last, first_build, nbuilds>>

----------------------------------------------------------------------------
(* Bounds of the model *)

MaxDim == 1
MaxDur == 1
MaxBuilds == 2

----------------------------------------------------------------------------
(* Python values *)

None == <<>>
Some(v) == <<v>>
Val(x) == x[1]

EmptyDict == [k \in {} |-> None]

\* d.get(k): the value under k, or None
PyGet(d, k) == IF k \in DOMAIN d THEN d[k] ELSE None

\* d.get(k, default) for a dict of bare values
PyGetDefault(d, k, default) == IF k \in DOMAIN d THEN d[k] ELSE default

\* {**a, **b}: the keys of b override those of a
DictMerge(a, b) ==
  [k \in (DOMAIN a) \cup (DOMAIN b) |-> IF k \in DOMAIN b THEN b[k] ELSE a[k]]

\* truth value of an optional str, of an optional dict, of an optional
\* number and of an optional object
TruthyStr(x) == x # None /\ Val(x) # ""
TruthyDict(x) == x # None /\ DOMAIN Val(x) # {}
TruthyNum(x) == x # None /\ Val(x) # 0
TruthyObj(x) == x # None

\* x or {} for an optional dict
OrEmptyDict(x) == IF TruthyDict(x) THEN Val(x) ELSE EmptyDict

\* the outcome of a call: a returned value or a raised exception
Return(v) == [raised |-> FALSE, value |-> v]
Raise(exc, msg) == [raised |-> TRUE, exc |-> exc, msg |-> msg]

\* str(x) of a float given in eighths: shortest decimal form, at least one
\* fractional digit
str_float(n) ==
  LET whole == n \div 8
      r == n % 8
      frac == CASE r = 0 -> "0"
                [] r = 1 -> "125"
                [] r = 2 -> "25"
                [] r = 3 -> "375"
                [] r = 4 -> "5"
                [] r = 5 -> "625"
                [] r = 6 -> "75"
                [] r = 7 -> "875"
  IN ToString(whole) \o "." \o frac

\* f"{x}" of a zoom factor given in thousandths, 0.001 to 0.009
str_zoom(k) == "0.00" \o ToString(k)

\* int(x) of a float given in eighths: truncation toward zero
py_int(m) == IF m >= 0 THEN m \div 8 ELSE 0 - ((0 - m) \div 8)

RECURSIVE Join(_, _)
\* sep.join(parts)
Join(parts, sep) ==
  IF parts = <<>> THEN ""
  ELSE IF Len(parts) = 1 THEN parts[1]
  ELSE parts[1] \o sep \o Join(Tail(parts), sep)

----------------------------------------------------------------------------
(* The collaborator video.media.MediaUtils: each object answers every      *)
(* query the same way, by returning a value or by raising.                 *)

InspectorError == Raise("RuntimeError", "ffprobe failed")
ExecutorError == Raise("RuntimeError", "ffmpeg failed")

Durations == (0 .. MaxDur) \cup {80}

AudioAnswers ==
  {InspectorError, Return(EmptyDict)}
    \cup {Return([duration |-> Some(n)]) : n \in Durations}

KnownDuration == Return([duration |-> Some(80)])

MediaUtilsObjs ==
  {[audio_info |-> a, video_info |-> KnownDuration, ffmpeg |-> Return(TRUE)] :
      a \in AudioAnswers}
  \cup
  {[audio_info |-> KnownDuration, video_info |-> v, ffmpeg |-> Return(TRUE)] :
      v \in {InspectorError, Return(EmptyDict)}}
  \cup
  {[audio_info |-> KnownDuration, video_info |-> KnownDuration, ffmpeg |-> e] :
      e \in {ExecutorError, Return(FALSE)}}

get_audio_info(media_utils, file_path) == media_utils.audio_info

get_video_info(media_utils, file_path) == media_utils.video_info

execute_ffmpeg_command(media_utils, cmd, label, expected, show_progress) ==
  media_utils.ffmpeg

----------------------------------------------------------------------------
(* Arguments the callers pass *)

DimItems == (0 - 1) .. MaxDim

DimensionValues ==
  {[type |-> "tuple", items |-> s] :
      s \in UNION {[1 .. n -> DimItems] : n \in 0 .. 3}}
  \cup {[type |-> "list", items |-> s] : s \in [1 .. 2 -> DimItems]}
  \cup {[type |-> "int", items |-> <<>>]}

ImageFiles == {"bg.jpg"}
VideoFiles == {"clip.mp4"}
AudioFiles == {"voice.mp3"}
OutputPaths == {"output.mp4", "final.mp4"}

KenBurnsConfigs ==
  {None, Some([direction |-> "zoom-to-center", zoom_factor |-> 2])}

CaptionFilePaths == {None, Some("subs.srt")}

CaptionConfigs ==
  {None, Some([font |-> Some("Arial")]), Some([file |-> Some("alt.srt")])}

----------------------------------------------------------------------------
(* VideoBuilder.__init__ *)

DefaultFfmpegPath == "ffmpeg"
DefaultOutputPath == "output.mp4"

\* mutant: the length is checked, the type is not
dimensions_ok_length_only(dimensions) ==
  Len(dimensions.items) = 2

dimensions_ok(dimensions) ==
  ~ (dimensions.type # "tuple" \/ Len(dimensions.items) # 2)

new_builder(dimensions, ffmpeg_path) ==
  IF ~ dimensions_ok(dimensions)
  THEN [self |-> None,
        ret |-> Raise("ValueError",
                      "Dimensions must be a tuple of (width, height).")]
  ELSE [self |-> Some([width |-> dimensions.items[1],
                       height |-> dimensions.items[2],
                       ffmpeg_path |-> ffmpeg_path,
                       background |-> None,
                       audio_file |-> None,
                       captions |-> None,
                       output_path |-> DefaultOutputPath,
                       media_utils |-> None]),
        ret |-> Return("self")]

----------------------------------------------------------------------------
(* The setters: each returns the builder after the call and the returned   *)
(* value ("self" stands for the receiver)                                  *)

set_media_utils(self, media_utils) ==
  [self |-> [self EXCEPT !.media_utils = Some(media_utils)],
   ret |-> Return("self")]

set_background_image(self, file_path, ken_burns_config) ==
  [self |-> [self EXCEPT !.background =
               Some([type |-> "image", file |-> file_path,
                     ken_burns |-> OrEmptyDict(ken_burns_config)])],
   ret |-> Return("self")]

set_background_video(self, file_path) ==
  [self |-> [self EXCEPT !.background =
               Some([type |-> "video", file |-> file_path])],
   ret |-> Return("self")]

set_audio(self, file_path) ==
  [self |-> [self EXCEPT !.audio_file = Some(file_path)],
   ret |-> Return("self")]

\* mutant: the config keys are not merged in
set_captions_no_merge(self, file_path, config) ==
  [self |-> [self EXCEPT !.captions = Some([file |-> file_path])],
   ret |-> Return("self")]

set_captions(self, file_path, config) ==
  [self |-> [self EXCEPT !.captions =
               Some(DictMerge([file |-> file_path], OrEmptyDict(config)))],
   ret |-> Return("self")]

set_output_path(self, output_path) ==
  [self |-> [self EXCEPT !.output_path = output_path],
   ret |-> Return("self")]

----------------------------------------------------------------------------
(* VideoBuilder.build_command *)

fps == 25
DefaultZoomFactor == 1

\* mutant: only the background and the image rule are checked
validate_image_rule_only(self) ==
  IF ~ TruthyDict(self.background)
  THEN Raise("ValueError", "Background must be set (image or video).")
  ELSE IF Val(self.background).type = "image" /\ ~ TruthyStr(self.audio_file)
  THEN Raise("ValueError",
             "Audio file must be provided if background is an image.")
  ELSE Return(None)

\* the validation of the accumulated fields: the exception raised, or a
\* return of None when every rule passes
validate(self) ==
  IF ~ TruthyDict(self.background)
  THEN Raise("ValueError", "Background must be set (image or video).")
  ELSE IF ~ TruthyStr(self.audio_file) /\ ~ TruthyDict(self.captions)
  THEN Raise("ValueError",
             "At least one of audio_file, or captions must be provided.")
  ELSE IF Val(self.background).type = "image" /\ ~ TruthyStr(self.audio_file)
  THEN Raise("ValueError",
             "Audio file must be provided if background is an image.")
  ELSE IF /\ Val(self.background).type = "video"
          /\ ~ TruthyStr(self.audio_file)
          /\ self.captions = None
  THEN Raise("ValueError",
             "Audio file or captions must be provided if background is a video.")
  ELSE Return(None)

\* mutant: a duration is refused only when it is None
get_audio_duration_none_only(self) ==
  IF TruthyStr(self.audio_file)
  THEN IF ~ TruthyObj(self.media_utils)
       THEN Raise("ValueError",
                  "Media manager must be set to determine audio duration.")
       ELSE LET media_info ==
                  get_audio_info(Val(self.media_utils), Val(self.audio_file))
            IN IF media_info.raised
               THEN media_info
               ELSE LET audio_duration == PyGet(media_info.value, "duration")
                    IN IF audio_duration = None
                       THEN Raise("ValueError",
                                  "Could not determine audio duration")
                       ELSE Return(audio_duration)
  ELSE Return(None)

\* audio_duration: None without audio, else the duration the media manager
\* reports, or the exception raised on the way
get_audio_duration(self) ==
  IF TruthyStr(self.audio_file)
  THEN IF ~ TruthyObj(self.media_utils)
       THEN Raise("ValueError",
                  "Media manager must be set to determine audio duration.")
       ELSE LET media_info ==
                  get_audio_info(Val(self.media_utils), Val(self.audio_file))
            IN IF media_info.raised
               THEN media_info
               ELSE LET audio_duration == PyGet(media_info.value, "duration")
                    IN IF ~ TruthyNum(audio_duration)
                       THEN Raise("ValueError",
                                  "Could not determine audio duration")
                       ELSE Return(audio_duration)
  ELSE Return(None)

\* the input declaration of the background
background_input(background, audio_duration) ==
  IF background.type = "image"
  THEN <<"-loop", "1", "-t", str_float(Val(audio_duration)), "-i",
         background.file>>
  ELSE IF background.type = "video"
  THEN IF TruthyNum(audio_duration)
       THEN <<"-stream_loop", "-1", "-t", str_float(Val(audio_duration)),
              "-i", background.file>>
       ELSE <<"-i", background.file>>
  ELSE <<>>

\* mutant: no extra frame
zoompan_d_no_headroom(audio_duration) ==
  py_int(Val(audio_duration) * fps)

\* the number of frames the zoompan stage declares
zoompan_d(audio_duration) ==
  LET duration_frames == py_int(Val(audio_duration) * fps)
  IN duration_frames + 1

\* the filter stages of the background
background_filter(self, background, audio_duration, input_index) ==
  IF background.type = "image"
  THEN LET ken_burns_config == PyGetDefault(background, "ken_burns", EmptyDict)
           zoom_factor == PyGetDefault(ken_burns_config, "zoom_factor",
                                       DefaultZoomFactor)
           zoom_expressions ==
             [zoom_to_top |->
                "z='zoom+" \o str_zoom(zoom_factor)
                  \o "':x=iw/2-(iw/zoom/2):y=0",
              zoom_to_center |->
                "z='zoom+" \o str_zoom(zoom_factor)
                  \o "':x=iw/2-(iw/zoom/2):y=ih/2-(ih/zoom/2)",
              zoom_to_top_left |->
                "z='zoom+" \o str_zoom(zoom_factor) \o "':x=0:y=0"]
           zoom_expr == zoom_expressions.zoom_to_top_left
       IN <<"[" \o ToString(input_index) \o "]scale="
              \o ToString(self.width) \o ":-2,setsar=1:1,"
              \o "crop=" \o ToString(self.width) \o ":"
              \o ToString(self.height) \o ","
              \o "zoompan=" \o zoom_expr \o ":d="
              \o ToString(zoompan_d(audio_duration))
              \o ":s=" \o ToString(self.width) \o "x"
              \o ToString(self.height) \o ":fps=" \o ToString(fps) \o "[bg]">>
  ELSE IF background.type = "video"
  THEN <<"[" \o ToString(input_index) \o "]scale=" \o ToString(self.width)
           \o ":" \o ToString(self.height) \o "[bg]">>
  ELSE <<>>

\* mutant: captions without a file are handled as absent captions
caption_stage_file_or_copy(captions, filter_parts, current_video) ==
  IF TruthyDict(captions) /\ TruthyStr(PyGet(Val(captions), "file"))
  THEN [filter_parts |->
          Append(filter_parts,
                 current_video \o "subtitles="
                   \o Val(PyGet(Val(captions), "file")) \o "[v]"),
        current_video |-> "[v]"]
  ELSE [filter_parts |-> Append(filter_parts, "[bg]copy[v]"),
        current_video |-> "[v]"]

\* mutant: without captions the stream is renamed but no stage is added
caption_stage_rename_only(captions, filter_parts, current_video) ==
  IF TruthyDict(captions)
  THEN LET subtitle_file == PyGet(Val(captions), "file")
       IN IF TruthyStr(subtitle_file)
          THEN [filter_parts |->
                  Append(filter_parts,
                         current_video \o "subtitles=" \o Val(subtitle_file)
                           \o "[v]"),
                current_video |-> "[v]"]
          ELSE [filter_parts |-> filter_parts,
                current_video |-> current_video]
  ELSE [filter_parts |-> filter_parts, current_video |-> "[v]"]

\* the caption step: the filter stages and the label of the video stream
\* after it
caption_stage(captions, filter_parts, current_video) ==
  IF TruthyDict(captions)
  THEN LET subtitle_file == PyGet(Val(captions), "file")
       IN IF TruthyStr(subtitle_file)
          THEN [filter_parts |->
                  Append(filter_parts,
                         current_video \o "subtitles=" \o Val(subtitle_file)
                           \o "[v]"),
                current_video |-> "[v]"]
          ELSE [filter_parts |-> filter_parts,
                current_video |-> current_video]
  ELSE IF current_video = "[bg]"
       THEN [filter_parts |-> Append(filter_parts, "[bg]copy[v]"),
             current_video |-> "[v]"]
       ELSE [filter_parts |-> filter_parts, current_video |-> current_video]

\* mutant: no duration cap
audio_codec_no_cap(self, audio_duration) ==
  IF TruthyStr(self.audio_file)
  THEN <<"-c:a", "aac", "-b:a", "192k">>
  ELSE <<>>

\* the audio codec settings and the duration cap
audio_codec(self, audio_duration) ==
  IF TruthyStr(self.audio_file)
  THEN <<"-c:a", "aac", "-b:a", "192k">>
         \o (IF TruthyNum(audio_duration)
             THEN <<"-t", str_float(Val(audio_duration))>>
             ELSE <<>>)
  ELSE <<>>

\* the input declaration of the audio file
audio_input(self) ==
  IF TruthyStr(self.audio_file) THEN <<"-i", Val(self.audio_file)>> ELSE <<>>

\* the index of the audio input: the background is input 0
audio_input_index(self, input_index) ==
  IF TruthyStr(self.audio_file) THEN Some(input_index) ELSE None

\* the filter graph flag
filter_complex(filter_parts) ==
  IF filter_parts # <<>>
  THEN <<"-filter_complex", Join(filter_parts, ";")>>
  ELSE <<>>

\* the stream mappings
stream_maps(current_video, audio_index) ==
  <<"-map", current_video>>
    \o (IF audio_index # None
        THEN <<"-map", ToString(Val(audio_index)) \o ":a">>
        ELSE <<>>)

\* the tokens in the order they are appended, given the outcome of the
\* caption step
sequence_tokens(self, audio_duration, cap) ==
  <<self.ffmpeg_path, "-y">>
    \o background_input(Val(self.background), audio_duration)
    \o audio_input(self)
    \o filter_complex(cap.filter_parts)
    \o stream_maps(cap.current_video, audio_input_index(self, 0 + 1))
    \o <<"-c:v", "libx264", "-preset", "ultrafast">>
    \o <<"-crf", "23", "-pix_fmt", "yuv420p">>
    \o audio_codec(self, audio_duration)
    \o <<self.output_path>>

\* the command built once validation has passed and the duration is known
assemble(self, audio_duration) ==
  sequence_tokens(self, audio_duration,
                  caption_stage(self.captions,
                                background_filter(self, Val(self.background),
                                                  audio_duration, 0),
                                "[bg]"))

\* the outcome of build_command once the duration query is done
build_with_duration(self, audio_duration) ==
  IF audio_duration.raised
  THEN audio_duration
  ELSE Return(assemble(self, audio_duration.value))

\* the outcome of build_command once validation is done
build_validated(self, checked) ==
  IF checked.raised
  THEN checked
  ELSE build_with_duration(self, get_audio_duration(self))

\* mutant: building consumes the captions
build_command_consuming(self) ==
  [self |-> [self EXCEPT !.captions = None],
   ret |-> build_validated(self, validate(self))]

build_command(self) ==
  [self |-> self, ret |-> build_validated(self, validate(self))]

----------------------------------------------------------------------------
(* VideoBuilder.execute *)

\* the answer of a duration query, reduced to its duration
duration_of(info) ==
  IF info.raised THEN info ELSE Return(PyGet(info.value, "duration"))

\* the duration handed to the executor for progress tracking
expected_duration(self) ==
  IF TruthyStr(self.audio_file)
  THEN duration_of(get_audio_info(Val(self.media_utils),
                                  Val(self.audio_file)))
  ELSE IF /\ TruthyDict(self.background)
          /\ PyGet(Val(self.background), "type") = "video"
  THEN duration_of(get_video_info(Val(self.media_utils),
                                  Val(self.background).file))
  ELSE Return(None)

\* the end of the try block: the executor has answered
after_run(self, run, success) ==
  IF success.raised
  THEN [self |-> self, ret |-> success, runs |-> <<run>>]
  ELSE IF success.value
  THEN [self |-> self, ret |-> Return(TRUE), runs |-> <<run>>]
  ELSE [self |-> self, ret |-> Return(FALSE), runs |-> <<run>>]

\* the try block from the executor call on
run_command(self, cmd, expected) ==
  IF expected.raised
  THEN [self |-> self, ret |-> expected, runs |-> <<>>]
  ELSE after_run(self,
                 [cmd |-> cmd, description |-> "build video",
                  expected_duration |-> expected.value,
                  show_progress |-> TRUE],
                 execute_ffmpeg_command(Val(self.media_utils), cmd,
                                        "build video", expected.value, TRUE))

\* the try block from the return of build_command on
after_build(built) ==
  IF built.ret.raised
  THEN [self |-> built.self, ret |-> built.ret, runs |-> <<>>]
  ELSE run_command(built.self, built.ret.value,
                   expected_duration(built.self))

\* the body of the try block: the outcome and the calls made to the executor
try_body(self) == after_build(build_command(self))

\* the except clause
catch_exception(tried) ==
  IF tried.ret.raised
  THEN [self |-> tried.self, ret |-> Return(FALSE), runs |-> tried.runs]
  ELSE tried

\* mutant: nothing is caught
execute_no_catch(self) ==
  IF ~ TruthyObj(self.media_utils)
  THEN [self |-> self, ret |-> Return(FALSE), runs |-> <<>>]
  ELSE try_body(self)

execute(self) ==
  IF ~ TruthyObj(self.media_utils)
  THEN [self |-> self, ret |-> Return(FALSE), runs |-> <<>>]
  ELSE catch_exception(try_body(self))

----------------------------------------------------------------------------
(* The state machine: one builder, the last call made on it and its        *)
(* outcome, and the first of the build_command calls made since the last   *)
(* setter call                                                             *)

NoCall == [op |-> "none", args |-> <<>>, ret |-> Return(None), runs |-> <<>>]

Init ==
  /\ vb = None
  /\ last = NoCall
  /\ first_build = None
  /\ nbuilds = 0

Call_new ==
  /\ vb = None
  /\ \E dimensions \in DimensionValues :
       LET r == new_builder(dimensions, DefaultFfmpegPath)
       IN /\ vb' = r.self
          /\ last' = [op |-> "__init__",
                      args |-> [dimensions |-> dimensions,
                                ffmpeg_path |-> DefaultFfmpegPath],
                      ret |-> r.ret, runs |-> <<>>]
  /\ UNCHANGED <<first_build, nbuilds>>

\* a setter call with outcome r
Setter(op, args, r) ==
  /\ vb' = Some(r.self)
  /\ last' = [op |-> op, args |-> args, ret |-> r.ret, runs |-> <<>>]
  /\ first_build' = None
  /\ nbuilds' = 0

Call_set_media_utils ==
  /\ vb # None
  /\ \E media_utils \in MediaUtilsObjs :
       Setter("set_media_utils", [media_utils |-> media_utils],
              set_media_utils(Val(vb), media_utils))

Call_set_background_image ==
  /\ vb # None
  /\ \E file_path \in ImageFiles, ken_burns_config \in KenBurnsConfigs :
       Setter("set_background_image",
              [file_path |-> file_path,
               ken_burns_config |-> ken_burns_config],
              set_background_image(Val(vb), file_path, ken_burns_config))

Call_set_background_video ==
  /\ vb # None
  /\ \E file_path \in VideoFiles :
       Setter("set_background_video", [file_path |-> file_path],
              set_background_video(Val(vb), file_path))

Call_set_audio ==
  /\ vb # None
  /\ \E file_path \in AudioFiles :
       Setter("set_audio", [file_path |-> file_path],
              set_audio(Val(vb), file_path))

Call_set_captions ==
  /\ vb # None
  /\ \E file_path \in CaptionFilePaths, config \in CaptionConfigs :
       Setter("set_captions", [file_path |-> file_path, config |-> config],
              set_captions(Val(vb), file_path, config))

Call_set_output_path ==
  /\ vb # None
  /\ \E output_path \in OutputPaths :
       Setter("set_output_path", [output_path |-> output_path],
              set_output_path(Val(vb), output_path))

Call_build_command ==
  /\ vb # None
  /\ nbuilds < MaxBuilds
  /\ LET r == build_command(Val(vb))
     IN /\ vb' = Some(r.self)
        /\ last' = [op |-> "build_command", args |-> <<>>, ret |-> r.ret,
                    runs |-> <<>>]
        /\ first_build' = IF nbuilds = 0
                          THEN Some([self |-> Val(vb), ret |-> r.ret])
                          ELSE first_build
        /\ nbuilds' = nbuilds + 1

Call_execute ==
  /\ vb # None
  /\ LET r == execute(Val(vb))
     IN /\ vb' = Some(r.self)
        /\ last' = [op |-> "execute", args |-> <<>>, ret |-> r.ret,
                    runs |-> r.runs]
  /\ UNCHANGED <<first_build, nbuilds>>

Next ==
  \/ Call_new
  \/ Call_set_media_utils
  \/ Call_set_background_image
  \/ Call_set_background_video
  \/ Call_set_audio
  \/ Call_set_captions
  \/ Call_set_output_path
  \/ Call_build_command
  \/ Call_execute

Spec == Init /\ [][Next]_vars

----------------------------------------------------------------------------
(* Vocabulary of the properties *)

\* the kinds of failure: every one is a ValueError in the code, told apart
\* by the rule that raised it
ConfigurationMessages ==
  {"Dimensions must be a tuple of (width, height).",
   "Background must be set (image or video).",
   "At least one of audio_file, or captions must be provided.",
   "Audio file must be provided if background is an image.",
   "Audio file or captions must be provided if background is a video."}

InvalidConfiguration(r) ==
  r.raised /\ r.exc = "ValueError" /\ r.msg \in ConfigurationMessages

DurationUnavailable(r) ==
  r.raised /\ r.exc = "ValueError"
    /\ r.msg = "Could not determine audio duration"

MissingCollaborator(r) ==
  r.raised /\ r.exc = "ValueError"
    /\ r.msg = "Media manager must be set to determine audio duration."

\* a failed call hands back no value
NoValue(r) == r.raised /\ "value" \notin DOMAIN r

Built == vb # None /\ last.op = "build_command"
BuiltOk == Built /\ ~ last.ret.raised
Cmd == last.ret.value

IsImage == Val(vb).background # None /\ Val(Val(vb).background).type = "image"
IsVideo == Val(vb).background # None /\ Val(Val(vb).background).type = "video"
HasAudio == Val(vb).audio_file # None
HasInspector == Val(vb).media_utils # None
AudioAnswer == Val(Val(vb).media_utils).audio_info
\* the duration the inspector reports for the audio file, in eighths
ReportedDuration == Val(AudioAnswer.value.duration)

\* the largest k with k * b <= a
FloorDiv(a, b) == CHOOSE k \in 0 .. a : k * b <= a /\ a < (k + 1) * b

Position(cmd, flag) == CHOOSE i \in 1 .. Len(cmd) : cmd[i] = flag
Count(cmd, flag) == Cardinality({i \in 1 .. Len(cmd) : cmd[i] = flag})
\* the filter graph and the label of the first, the video, stream mapping
FilterGraph(cmd) == cmd[Position(cmd, "-filter_complex") + 1]
VideoMapping(cmd) == cmd[Position(cmd, "-map") + 1]

\* the background stage as the encoder expects it
ExpectedZoomFactor ==
  IF "zoom_factor" \in DOMAIN Val(Val(vb).background).ken_burns
  THEN "0.002"
  ELSE "0.001"

ExpectedImageStage(frames) ==
  "[0]scale=" \o ToString(Val(vb).width) \o ":-2,setsar=1:1,crop="
    \o ToString(Val(vb).width) \o ":" \o ToString(Val(vb).height)
    \o ",zoompan=z='zoom+" \o ExpectedZoomFactor \o "':x=0:y=0:d="
    \o ToString(frames) \o ":s=" \o ToString(Val(vb).width) \o "x"
    \o ToString(Val(vb).height) \o ":fps=25[bg]"

ExpectedVideoStage ==
  "[0]scale=" \o ToString(Val(vb).width) \o ":" \o ToString(Val(vb).height)
    \o "[bg]"

ExpectedBackgroundStage ==
  IF IsImage
  THEN ExpectedImageStage(FloorDiv(ReportedDuration * 25, 8) + 1)
  ELSE ExpectedVideoStage

----------------------------------------------------------------------------
(* C1: without audio, build_command fails with InvalidConfiguration and    *)
(* returns no command whenever the background is an image (captions        *)
(* absent, set without a file or set with a file) or the background is a   *)
(* video and captions are absent.                                          *)
C1_NoAudioFails ==
  (Built /\ ~ HasAudio /\ (IsImage \/ (IsVideo /\ Val(vb).captions = None)))
    => InvalidConfiguration(last.ret) /\ NoValue(last.ret)

C1_Witness ==
  /\ Built /\ ~ HasAudio /\ IsImage
  /\ Val(vb).captions # None
  /\ PyGet(Val(Val(vb).captions), "file") = Some("subs.srt")
  /\ last.ret.raised

----------------------------------------------------------------------------
(* C2: the constructor fails with InvalidConfiguration, producing no       *)
(* builder, for every dimensions value that is not a pair.                 *)

Constructed == last.op = "__init__"
IsPair(d) == d.type = "tuple" /\ Len(d.items) = 2

----------------------------------------------------------------------------
(* C3: with audio set and the background and caption rules passed,         *)
(* build_command returns a command only if a media inspector is attached   *)
(* and reports a non-zero duration; without an inspector it fails; on a    *)
(* zero or absent duration it fails with DurationUnavailable; a failing    *)
(* call returns no command.                                                *)

AudioBuild == Built /\ HasAudio /\ Val(vb).background # None

NonZeroDurationReported ==
  /\ HasInspector
  /\ ~ AudioAnswer.raised
  /\ "duration" \in DOMAIN AudioAnswer.value
  /\ ReportedDuration # 0

\* C3 as stated: a query that itself fails is reported as
\* DurationUnavailable too
C3_QueryFailureIsDurationUnavailable ==
  AudioBuild =>
    /\ ~ last.ret.raised => NonZeroDurationReported
    /\ ~ HasInspector => last.ret.raised
    /\ (HasInspector /\ ~ NonZeroDurationReported)
         => DurationUnavailable(last.ret)
    /\ last.ret.raised => NoValue(last.ret)

\* C3 as amended: a zero or absent duration is DurationUnavailable, and the
\* error of a failing query propagates unchanged
C3_DurationRequired ==
  AudioBuild =>
    /\ ~ last.ret.raised => NonZeroDurationReported
    /\ ~ HasInspector => MissingCollaborator(last.ret)
    /\ (HasInspector /\ ~ AudioAnswer.raised /\ ~ NonZeroDurationReported)
         => DurationUnavailable(last.ret)
    /\ (HasInspector /\ AudioAnswer.raised)
         => last.ret = AudioAnswer /\ ~ DurationUnavailable(last.ret)
    /\ NonZeroDurationReported => ~ last.ret.raised
    /\ last.ret.raised => NoValue(last.ret)

C3_Witness ==
  /\ AudioBuild /\ HasInspector
  /\ ~ AudioAnswer.raised
  /\ "duration" \in DOMAIN AudioAnswer.value
  /\ ReportedDuration = 0
  /\ DurationUnavailable(last.ret)

----------------------------------------------------------------------------
(* C4: in every successful build_command with captions set without a file *)
(* the filter graph is the background stage alone, with no subtitles and   *)
(* no copy stage, and the video stream mapping selects bg, for image and   *)
(* video backgrounds, with or without audio.                               *)

CaptionsWithoutFile ==
  /\ Val(vb).captions # None
  /\ PyGet(Val(Val(vb).captions), "file") = None

----------------------------------------------------------------------------
(* C5: in every successful build_command with captions never set the       *)
(* filter graph is the background stage followed by exactly one copy stage *)
(* renaming bg to v, and the video stream mapping selects v.               *)
C5_NoCaptionsCopyToV ==
  (BuiltOk /\ Val(vb).captions = None) =>
    /\ FilterGraph(Cmd) = ExpectedBackgroundStage \o ";[bg]copy[v]"
    /\ VideoMapping(Cmd) = "[v]"

C5_Witness ==
  /\ BuiltOk /\ Val(vb).captions = None /\ IsVideo
  /\ VideoMapping(Cmd) = "[v]"

----------------------------------------------------------------------------
(* C6: build_command called twice with no setter call in between gives the *)
(* same outcome both times, the same tokens or the same failure, and       *)
(* leaves every field of the builder as it was.                            *)
C6_BuildIdempotent ==
  (vb # None /\ nbuilds >= 1) =>
    /\ Val(vb) = Val(first_build).self
    /\ last.op = "build_command" => last.ret = Val(first_build).ret

C6_Witness ==
  /\ BuiltOk /\ nbuilds = 2
  /\ Cmd = Val(first_build).ret.value

C6_WitnessFailure ==
  Built /\ nbuilds = 2 /\ last.ret.raised

----------------------------------------------------------------------------
(* C7: for an image background with audio of reported duration D the       *)
(* zoompan stage declares d = floor(D * 25) + 1 frames at fps 25, and the  *)
(* -t value of the image input is D, the same value as the trailing cap.   *)

\* no two durations have the same rendering, so the token determines D
RenderingIsExact(n) ==
  \A m \in 0 .. 8 * (MaxDur + 10) : str_float(m) = str_float(n) => m = n

C7_ImageFramesAndDuration ==
  (BuiltOk /\ IsImage) =>
    /\ NonZeroDurationReported
    /\ SubSeq(Cmd, 3, 8)
         = <<"-loop", "1", "-t", str_float(ReportedDuration), "-i",
             Val(Val(vb).background).file>>
    /\ RenderingIsExact(ReportedDuration)
    /\ Cmd[Len(Cmd) - 2] = "-t"
    /\ Cmd[Len(Cmd) - 1] = Cmd[6]
    /\ ReportedDuration = 80 => Cmd[6] = "10.0"
    /\ ReportedDuration = 1 => Cmd[6] = "0.125"
    /\ \E rest \in {"", ";[bg]copy[v]", ";[bg]subtitles=subs.srt[v]",
                    ";[bg]subtitles=alt.srt[v]"} :
         FilterGraph(Cmd)
           = ExpectedImageStage(FloorDiv(ReportedDuration * 25, 8) + 1)
               \o rest

C7_Witness ==
  /\ BuiltOk /\ IsImage
  /\ ReportedDuration = 80
  /\ Val(vb).captions = None
  /\ FilterGraph(Cmd) = ExpectedImageStage(251) \o ";[bg]copy[v]"

----------------------------------------------------------------------------
(* C8: execute never propagates an error: it returns a boolean, false when *)
(* the media inspector is not bound (the executor is not invoked), when    *)
(* assembly fails, when a duration query or the executor raises or when    *)
(* the executor reports failure, and true only when assembly succeeded and *)
(* the executor returned success.                                          *)

Executed == vb # None /\ last.op = "execute"
Assembly == build_command(Val(vb)).ret
\* the query execute makes for the expected duration raises
ProgressQueryRaises ==
  IF HasAudio
  THEN AudioAnswer.raised
  ELSE IsVideo /\ Val(Val(vb).media_utils).video_info.raised

C8_ExecuteReturnsBoolean ==
  Executed =>
    /\ ~ last.ret.raised
    /\ last.ret.value \in BOOLEAN
    /\ ~ HasInspector => (last.ret.value = FALSE /\ last.runs = <<>>)
    /\ (HasInspector /\ Assembly.raised)
         => (last.ret.value = FALSE /\ last.runs = <<>>)
    /\ (HasInspector /\ ~ Assembly.raised /\ ProgressQueryRaises)
         => (last.ret.value = FALSE /\ last.runs = <<>>)
    /\ (HasInspector /\ Val(Val(vb).media_utils).ffmpeg # Return(TRUE))
         => last.ret.value = FALSE
    /\ last.ret.value = TRUE
         => /\ HasInspector
            /\ ~ Assembly.raised
            /\ Val(Val(vb).media_utils).ffmpeg = Return(TRUE)
            /\ Len(last.runs) = 1
            /\ last.runs[1].cmd = Assembly.value

C8_Witness ==
  /\ Executed /\ HasInspector
  /\ ~ Assembly.raised
  /\ Val(Val(vb).media_utils).ffmpeg = ExecutorError
  /\ Len(last.runs) = 1
  /\ last.ret = Return(FALSE)

C8_WitnessSuccess ==
  Executed /\ last.ret = Return(TRUE)

----------------------------------------------------------------------------
(* C9: each setter changes exactly one field of the builder, to the value  *)
(* it is given, leaves every other field, the dimensions included, as it   *)
(* was, never fails and returns the same builder; the background has       *)
(* exactly one variant, that of the last background setter called.         *)

Fields ==
  {"width", "height", "ffmpeg_path", "background", "audio_file", "captions",
   "output_path", "media_utils"}

SetterField ==
  [set_media_utils |-> "media_utils",
   set_background_image |-> "background",
   set_background_video |-> "background",
   set_audio |-> "audio_file",
   set_captions |-> "captions",
   set_output_path |-> "output_path"]

\* the value a setter call is to leave in its field
ValueGiven(call) ==
  CASE call.op = "set_media_utils" -> Some(call.args.media_utils)
    [] call.op = "set_background_image" ->
         Some([type |-> "image", file |-> call.args.file_path,
               ken_burns |-> IF call.args.ken_burns_config = None
                             THEN EmptyDict
                             ELSE Val(call.args.ken_burns_config)])
    [] call.op = "set_background_video" ->
         Some([type |-> "video", file |-> call.args.file_path])
    [] call.op = "set_audio" -> Some(call.args.file_path)
    [] call.op = "set_captions" ->
         LET given == IF call.args.config = None
                      THEN EmptyDict
                      ELSE Val(call.args.config)
         IN Some([k \in {"file"} \cup DOMAIN given |->
                    IF k \in DOMAIN given
                    THEN given[k]
                    ELSE call.args.file_path])
    [] call.op = "set_output_path" -> call.args.output_path

OneVariant(background) ==
  background # None =>
    \/ /\ Val(background).type = "image"
       /\ DOMAIN Val(background) = {"type", "file", "ken_burns"}
    \/ /\ Val(background).type = "video"
       /\ DOMAIN Val(background) = {"type", "file"}

C9_SettersChangeOneField ==
  [][(vb # None /\ last'.op \in DOMAIN SetterField) =>
       /\ vb' # None
       /\ \A f \in Fields \ {SetterField[last'.op]} :
            Val(vb')[f] = Val(vb)[f]
       /\ Val(vb')[SetterField[last'.op]] = ValueGiven(last')
       /\ last'.ret = Return("self")
       /\ OneVariant(Val(vb').background)]_vars

C9_Witness ==
  /\ vb # None /\ last.op = "set_background_video"
  /\ IsVideo
  /\ HasAudio
  /\ Val(vb).captions # None
  /\ Val(vb).output_path = "final.mp4"
  /\ HasInspector

----------------------------------------------------------------------------
(* C10: a successfully assembled command is, in this order: the encoder    *)
(* path, the overwrite flag, the background input, the audio input (iff    *)
(* audio is set), the filter graph, the video stream mapping, the audio    *)
(* stream mapping of input 1 (iff audio is set), the video codec           *)
(* parameters, the audio codec parameters followed by a -t cap of the      *)
(* audio duration (iff audio is set) and the output path; without audio it *)
(* holds no loop flag, no -t, no audio mapping and no -c:a.                *)

ExpectedBackgroundInput ==
  IF IsImage
  THEN <<"-loop", "1", "-t", str_float(ReportedDuration), "-i",
         Val(Val(vb).background).file>>
  ELSE IF HasAudio
  THEN <<"-stream_loop", "-1", "-t", str_float(ReportedDuration), "-i",
         Val(Val(vb).background).file>>
  ELSE <<"-i", Val(Val(vb).background).file>>

ExpectedHead ==
  <<Val(vb).ffmpeg_path, "-y">> \o ExpectedBackgroundInput
    \o (IF HasAudio THEN <<"-i", Val(Val(vb).audio_file)>> ELSE <<>>)

ExpectedTail ==
  (IF HasAudio THEN <<"-map", "1:a">> ELSE <<>>)
    \o <<"-c:v", "libx264", "-preset", "ultrafast", "-crf", "23",
         "-pix_fmt", "yuv420p">>
    \o (IF HasAudio
        THEN <<"-c:a", "aac", "-b:a", "192k", "-t",
               str_float(ReportedDuration)>>
        ELSE <<>>)
    \o <<Val(vb).output_path>>

C10_TokenOrder ==
  BuiltOk =>
    LET n == Len(ExpectedHead)
    IN /\ Len(Cmd) = n + 4 + Len(ExpectedTail)
       /\ SubSeq(Cmd, 1, n) = ExpectedHead
       /\ Cmd[n + 1] = "-filter_complex"
       /\ \E rest \in {"", ";[bg]copy[v]", ";[bg]subtitles=subs.srt[v]",
                       ";[bg]subtitles=alt.srt[v]"} :
            Cmd[n + 2] = ExpectedBackgroundStage \o rest
       /\ Cmd[n + 3] = "-map"
       /\ Cmd[n + 4] \in {"[bg]", "[v]"}
       /\ SubSeq(Cmd, n + 5, Len(Cmd)) = ExpectedTail
       /\ ~ HasAudio =>
            /\ \A i \in 1 .. Len(Cmd) :
                 Cmd[i] \notin {"-loop", "-stream_loop", "-t", "-c:a", "1:a"}
            /\ Count(Cmd, "-map") = 1

C10_Witness ==
  /\ BuiltOk /\ IsVideo /\ ~ HasAudio
  /\ Val(vb).width = 1 /\ Val(vb).height = 1
  /\ Cmd = <<"ffmpeg", "-y", "-i", "clip.mp4", "-filter_complex",
             "[0]scale=1:1[bg];[bg]subtitles=subs.srt[v]", "-map", "[v]",
             "-c:v", "libx264", "-preset", "ultrafast", "-crf", "23",
             "-pix_fmt", "yuv420p", "output.mp4">>

====
